---- MODULE Spec2Model ----
(***************************************************************************)
(* Training orchestration of the sketch GAN (src/model.py).                *)
(*                                                                         *)
(* Two specifications share this module.                                   *)
(*   Spec      the main program: directory listing, one Model per dataset  *)
(*             file, and Model.train statement by statement (optimizer     *)
(*             steps, gradient buffers, checkpoints).                      *)
(*   SpecLoss  one pass through get_batch, the generator's forward pass,   *)
(*             get_ground_truth and compute_reconstruction_loss on small   *)
(*             tensors.                                                    *)
(*                                                                         *)
(* Tensors are functions over 0-based indices, as in the source.           *)
(* Real-valued logarithms are represented by integers (fixed point); the   *)
(* two loss terms are kept as numerators over their common denominator     *)
(* (N_max + 1) * batch_size, so no rounding takes place.                   *)
(***************************************************************************)
EXTENDS Integers, Sequences, FiniteSets, TLC

VARIABLES
    \* ---- main program and Model.train ----
    dir,            \* entries of "dataset/": records [name, isfile]
    num_epoch,      \* hps.num_epoch
    pc,             \* position of the main program / of train
    dataset_list,   \* the list built at line 120
    k,              \* position of the for loop of line 121 (1-based)
    dataset_name,   \* self.dataset_name of the current Model
    generator,      \* self.generator:      [id, updates, grad]
    discriminator,  \* self.discriminator:  [id, updates, grad]
    nextId,         \* identity of the next network object constructed
    i,              \* loop variable of train
    lastUpdate,     \* which optimizer stepped last in this train ("none" at start)
    saved,          \* checkpoints written by this train: [i, g, d]
    started,        \* history: Models constructed, in order
    returned,       \* history: number of train() calls that returned
    \* ---- reconstruction loss ----
    lpc,            \* position in the loss computation
    N_max,          \* self.N_max
    batch_size,     \* hps.batch_size
    batch,          \* batch[t][j], t in 0..N_max
    lengths,        \* lengths[j]
    gen,            \* generator outputs per position
    truth,          \* result of get_ground_truth
    loss            \* result of compute_reconstruction_loss

mainvars == <<dir, num_epoch, pc, dataset_list, k, dataset_name, generator,
              discriminator, nextId, i, lastUpdate, saved, started, returned>>
lossvars == <<lpc, N_max, batch_size, batch, lengths, gen, truth, loss>>
vars == <<mainvars, lossvars>>

----------------------------------------------------------------------------
\* Bounds of the model.
MaxHundreds == 2
MaxNmax == 2
MaxBatch == 1

\* Program constants.
SaveEvery == 100
SuffixLen == 4

Max(a, b) == IF a >= b THEN a ELSE b
Min(a, b) == IF a <= b THEN a ELSE b

RECURSIVE SumOver(_, _)
\* Sum of f over the finite set S of its domain (torch.sum).
SumOver(f, S) ==
    IF S = {} THEN 0
    ELSE LET x == CHOOSE y \in S : TRUE IN f[x] + SumOver(f, S \ {x})

----------------------------------------------------------------------------
\* Inputs of the main program.

\* Candidate entries of the dataset directory: two dataset files and a
\* sub-directory.
DirEntries ==
    { [name |-> <<"c","a","t",".","n","p","z">>, isfile |-> TRUE],
      [name |-> <<"p","i","g",".","n","p","z">>, isfile |-> TRUE],
      [name |-> <<"r","a","w">>,                 isfile |-> FALSE] }

\* Values of hps.num_epoch: the small ones and those around each multiple
\* of the checkpoint period.
NumEpochs ==
    {0, 1, 2} \cup
    { h * SaveEvery + d : h \in 1..MaxHundreds, d \in {-1, 0, 1} }

\* dataset_name[:-4]
DropSuffix(name) == SubSeq(name, 1, Max(Len(name) - SuffixLen, 0))

\* [f for f in listdir(dataset_dir) if isfile(join(dataset_dir, f))]:
\* the regular files, in whatever order listdir returns them.
FileNames(d) == { e.name : e \in { x \in d : x.isfile } }
Listings(d) ==
    { s \in [1..Cardinality(FileNames(d)) -> FileNames(d)] :
        \A a, b \in DOMAIN s : s[a] = s[b] => a = b }

\* Generator() / Discriminator(): a new network, never updated, no gradient.
NewNetwork(id) == [id |-> id, updates |-> 0, grad |-> {}]

NoName == << >>

Init ==
    /\ dir \in SUBSET DirEntries
    /\ num_epoch \in NumEpochs
    /\ pc = "main"
    /\ dataset_list = << >>
    /\ k = 1
    /\ dataset_name = NoName
    /\ generator = NewNetwork(0)
    /\ discriminator = NewNetwork(0)
    /\ nextId = 1
    /\ i = 0
    /\ lastUpdate = "none"
    /\ saved = {}
    /\ started = << >>
    /\ returned = 0
    /\ lpc = "idle"
    /\ N_max = 0
    /\ batch_size = 0
    /\ batch = << >>
    /\ lengths = << >>
    /\ gen = << >>
    /\ truth = << >>
    /\ loss = << >>

----------------------------------------------------------------------------
\* The main program.

ListDir ==
    /\ pc = "main"
    /\ dataset_list' \in Listings(dir)
    /\ k' = 1
    /\ pc' = "for_dataset"
    /\ UNCHANGED <<dir, num_epoch, dataset_name, generator, discriminator,
                   nextId, i, lastUpdate, saved, started, returned>>
    /\ UNCHANGED lossvars

ModelInit_reuse ==
    /\ pc = "for_dataset"
    /\ k <= Len(dataset_list)
    /\ dataset_name' = DropSuffix(dataset_list[k])
    /\ started' = Append(started, [file |-> dataset_list[k],
                                   name |-> DropSuffix(dataset_list[k]),
                                   generator |-> generator.id,
                                   discriminator |-> discriminator.id])
    /\ pc' = "train"
    /\ UNCHANGED <<dir, num_epoch, dataset_list, k, generator, discriminator,
                   nextId, i, lastUpdate, saved, returned>>
    /\ UNCHANGED lossvars

\* model = Model(dataset_name[:-4])
ModelInit ==
    /\ pc = "for_dataset"
    /\ k <= Len(dataset_list)
    /\ dataset_name' = DropSuffix(dataset_list[k])
    /\ generator' = NewNetwork(nextId)
    /\ discriminator' = NewNetwork(nextId + 1)
    /\ nextId' = nextId + 2
    /\ started' = Append(started, [file |-> dataset_list[k],
                                   name |-> DropSuffix(dataset_list[k]),
                                   generator |-> nextId,
                                   discriminator |-> nextId + 1])
    /\ pc' = "train"
    /\ UNCHANGED <<dir, num_epoch, dataset_list, k, i, lastUpdate, saved, returned>>
    /\ UNCHANGED lossvars

MainExit ==
    /\ pc = "for_dataset"
    /\ k > Len(dataset_list)
    /\ pc' = "exit"
    /\ UNCHANGED <<dir, num_epoch, dataset_list, k, dataset_name, generator,
                   discriminator, nextId, i, lastUpdate, saved, started, returned>>
    /\ UNCHANGED lossvars

----------------------------------------------------------------------------
\* Model.train.  A gradient buffer is the set of backward passes that have
\* accumulated into it since it was last zeroed: <<loss, iteration>>.

\* model.train() is entered; the two Adam optimizers are created.
TrainInit ==
    /\ pc = "train"
    /\ i' = 0
    /\ lastUpdate' = "none"
    /\ saved' = {}
    /\ pc' = "for_i"
    /\ UNCHANGED <<dir, num_epoch, dataset_list, k, dataset_name, generator,
                   discriminator, nextId, started, returned>>
    /\ UNCHANGED lossvars

\* for i in range(num_epoch): next iteration; criterion, batch and inputs.
ForIter ==
    /\ pc = "for_i"
    /\ i < num_epoch
    /\ pc' = "G_zero_grad"
    /\ UNCHANGED <<dir, num_epoch, dataset_list, k, dataset_name, generator,
                   discriminator, nextId, i, lastUpdate, saved, started, returned>>
    /\ UNCHANGED lossvars

\* range exhausted: train returns and the main loop advances.
TrainReturn ==
    /\ pc = "for_i"
    /\ i >= num_epoch
    /\ returned' = returned + 1
    /\ k' = k + 1
    /\ pc' = "for_dataset"
    /\ UNCHANGED <<dir, num_epoch, dataset_list, dataset_name, generator,
                   discriminator, nextId, i, lastUpdate, saved, started>>
    /\ UNCHANGED lossvars

OptimizerGZeroGrad ==
    /\ pc = "G_zero_grad"
    /\ generator' = [generator EXCEPT !.grad = {}]
    /\ pc' = "loss_G_backward"
    /\ UNCHANGED <<dir, num_epoch, dataset_list, k, dataset_name,
                   discriminator, nextId, i, lastUpdate, saved, started, returned>>
    /\ UNCHANGED lossvars

\* Forward passes and loss_G.backward().  loss_G contains the content loss
\* (generator outputs) and loss_GAN = MSE(discriminator(generated), valid),
\* so the backward pass accumulates into the parameters of both networks.
LossGBackward ==
    /\ pc = "loss_G_backward"
    /\ generator' = [generator EXCEPT !.grad = @ \cup {<<"loss_G", i>>}]
    /\ discriminator' = [discriminator EXCEPT !.grad = @ \cup {<<"loss_G", i>>}]
    /\ pc' = "G_step"
    /\ UNCHANGED <<dir, num_epoch, dataset_list, k, dataset_name,
                   nextId, i, lastUpdate, saved, started, returned>>
    /\ UNCHANGED lossvars

OptimizerGStep ==
    /\ pc = "G_step"
    /\ generator' = [generator EXCEPT !.updates = @ + 1]
    /\ lastUpdate' = "G"
    /\ pc' = "D_zero_grad"
    /\ UNCHANGED <<dir, num_epoch, dataset_list, k, dataset_name,
                   discriminator, nextId, i, saved, started, returned>>
    /\ UNCHANGED lossvars

OptimizerDZeroGrad_keep ==
    /\ pc = "D_zero_grad"
    /\ pc' = "loss_D_backward"
    /\ UNCHANGED <<dir, num_epoch, dataset_list, k, dataset_name, generator,
                   discriminator, nextId, i, lastUpdate, saved, started, returned>>
    /\ UNCHANGED lossvars

OptimizerDZeroGrad ==
    /\ pc = "D_zero_grad"
    /\ discriminator' = [discriminator EXCEPT !.grad = {}]
    /\ pc' = "loss_D_backward"
    /\ UNCHANGED <<dir, num_epoch, dataset_list, k, dataset_name, generator,
                   nextId, i, lastUpdate, saved, started, returned>>
    /\ UNCHANGED lossvars

\* loss_real, loss_fake and loss_D.backward().  Both terms pass through the
\* discriminator.  generated_sequences is not detached here: whether the
\* backward pass also reaches the generator depends on whether
\* utils.generate_sequences_from_distributions keeps the graph, so both
\* outcomes are allowed.
LossDBackward ==
    /\ pc = "loss_D_backward"
    /\ discriminator' = [discriminator EXCEPT !.grad = @ \cup {<<"loss_D", i>>}]
    /\ \E attached \in BOOLEAN :
          generator' = [generator EXCEPT
                          !.grad = IF attached THEN @ \cup {<<"loss_D", i>>} ELSE @]
    /\ pc' = "D_step"
    /\ UNCHANGED <<dir, num_epoch, dataset_list, k, dataset_name,
                   nextId, i, lastUpdate, saved, started, returned>>
    /\ UNCHANGED lossvars

OptimizerDStep_twice ==
    /\ pc = "D_step"
    /\ discriminator' = [discriminator EXCEPT !.updates = @ + 2]
    /\ lastUpdate' = "D"
    /\ pc' = "end_of_iter"
    /\ UNCHANGED <<dir, num_epoch, dataset_list, k, dataset_name, generator,
                   nextId, i, saved, started, returned>>
    /\ UNCHANGED lossvars

OptimizerDStep ==
    /\ pc = "D_step"
    /\ discriminator' = [discriminator EXCEPT !.updates = @ + 1]
    /\ lastUpdate' = "D"
    /\ pc' = "end_of_iter"
    /\ UNCHANGED <<dir, num_epoch, dataset_list, k, dataset_name, generator,
                   nextId, i, saved, started, returned>>
    /\ UNCHANGED lossvars

EndOfIteration_late ==
    /\ pc = "end_of_iter"
    /\ saved' = IF (i + 1) % SaveEvery = 0
                THEN saved \cup {[i |-> i, g |-> generator.updates,
                                  d |-> discriminator.updates]}
                ELSE saved
    /\ i' = i + 1
    /\ pc' = "for_i"
    /\ UNCHANGED <<dir, num_epoch, dataset_list, k, dataset_name, generator,
                   discriminator, nextId, lastUpdate, started, returned>>
    /\ UNCHANGED lossvars

\* print; if i % 100 == 0: torch.save and generate_image_with_model; then
\* the loop variable advances.
EndOfIteration ==
    /\ pc = "end_of_iter"
    /\ saved' = IF i % SaveEvery = 0
                THEN saved \cup {[i |-> i, g |-> generator.updates,
                                  d |-> discriminator.updates]}
                ELSE saved
    /\ i' = i + 1
    /\ pc' = "for_i"
    /\ UNCHANGED <<dir, num_epoch, dataset_list, k, dataset_name, generator,
                   discriminator, nextId, lastUpdate, started, returned>>
    /\ UNCHANGED lossvars

Next ==
    \/ ListDir
    \/ ModelInit
    \/ MainExit
    \/ TrainInit
    \/ ForIter
    \/ TrainReturn
    \/ OptimizerGZeroGrad
    \/ LossGBackward
    \/ OptimizerGStep
    \/ OptimizerDZeroGrad
    \/ LossDBackward
    \/ OptimizerDStep
    \/ EndOfIteration

Spec == Init /\ [][Next]_vars

----------------------------------------------------------------------------
\* The reconstruction loss: get_ground_truth and compute_reconstruction_loss.

\* Rows of a batch.  v is the stroke-5 vector (dx, dy, p1, p2, p3); kind is
\* a label carried along to tell where a row came from, the code never
\* reads it.
SOS == [v |-> <<0, 0, 1, 0, 0>>, kind |-> "sos"]
PAD == [v |-> <<0, 0, 0, 0, 1>>, kind |-> "pad"]
EOS == [v |-> <<0, 0, 0, 0, 1>>, kind |-> "eos"]
Strokes ==
    { [v |-> <<1, 0, 1, 0, 0>>,  kind |-> "stroke"],
      [v |-> <<0, -1, 0, 1, 0>>, kind |-> "stroke"] }

\* Generator outputs at one position: logd stands for
\* log(epsilon + sum_m pi_m * pdf_m), logq for log(q) of the three pen
\* states.
GenOut ==
    { [logd |-> -2, logq |-> <<-1, -2, -3>>],
      [logd |-> 1,  logq |-> <<-3, -1, -1>>] }

Rows(x) == Cardinality(DOMAIN x)

\* Batches of the data loader: N_max + 1 time steps (they are concatenated
\* with z_stack of N_max + 1 rows at line 73); row 0 is the start-of-sequence
\* token, rows 1..L the strokes of the sequence, the rest padding.
Batches(n, b, lens) ==
    { x \in [0..n -> [0..(b - 1) -> Strokes \cup {SOS, PAD}]] :
        \A t \in 0..n, j \in 0..(b - 1) :
            /\ t = 0 => x[t][j] = SOS
            /\ (1 <= t /\ t <= lens[j]) => x[t][j] \in Strokes
            /\ t > lens[j] => x[t][j] = PAD }

\* Indices selected by the slice [start:stop] of a dimension of size n.
SliceIndices(start, stop, n) == { t \in 0..(n - 1) : start <= t /\ t < Min(stop, n) }

\* torch.cat([a, b], 0)
Cat0(a, b) ==
    [t \in 0..(Rows(a) + Rows(b) - 1) |->
        IF t < Rows(a) THEN a[t] ELSE b[t - Rows(a)]]

\* x[1:, ...]
From1(x) == [t \in 0..(Rows(x) - 2) |-> x[t + 1]]

\* end_of_sequence: one row of [0,0,0,0,1] per sequence of the batch.
end_of_sequence(b) == [t \in {0} |-> [j \in 0..(b - 1) |-> EOS]]

MaskOf_from0(n, b, lens) ==
    [t \in 0..n |-> [j \in 0..(b - 1) |->
        IF t \in SliceIndices(0, lens[j], n + 1) THEN 1 ELSE 0]]

\* mask = zeros(N_max + 1, batch); mask[1:sequence_length + 1, index] = 1
MaskOf(n, b, lens) ==
    [t \in 0..n |-> [j \in 0..(b - 1) |->
        IF t \in SliceIndices(1, lens[j] + 1, n + 1) THEN 1 ELSE 0]]

get_ground_truth(bt, lens, n, b) ==
    LET full == Cat0(bt, end_of_sequence(b))
        tgt  == From1(full)
    IN  [ mask      |-> MaskOf(n, b, lens),
          delta_x   |-> [t \in DOMAIN tgt |-> [j \in 0..(b - 1) |-> tgt[t][j].v[1]]],
          delta_y   |-> [t \in DOMAIN tgt |-> [j \in 0..(b - 1) |-> tgt[t][j].v[2]]],
          pen_state |-> [t \in DOMAIN tgt |-> [j \in 0..(b - 1) |->
                            <<tgt[t][j].v[3], tgt[t][j].v[4], tgt[t][j].v[5]>>]],
          kind      |-> [t \in DOMAIN tgt |-> [j \in 0..(b - 1) |-> tgt[t][j].kind]] ]

Positions(n, b) == (0..n) \X (0..(b - 1))

LsNum_unmasked(mask, g, n, b) ==
    - SumOver([p \in Positions(n, b) |-> g[p[1]][p[2]].logd], Positions(n, b))

\* Numerator of Ls = -sum(mask * log(epsilon + sum(pi * pdf, 2)))
LsNum(mask, g, n, b) ==
    - SumOver([p \in Positions(n, b) |-> mask[p[1]][p[2]] * g[p[1]][p[2]].logd],
              Positions(n, b))

\* Numerator of Lp = -sum(pen_state * log(q))
LpNum(pen_state, g, n, b) ==
    - SumOver([p \in Positions(n, b) |->
                  pen_state[p[1]][p[2]][1] * g[p[1]][p[2]].logq[1]
                + pen_state[p[1]][p[2]][2] * g[p[1]][p[2]].logq[2]
                + pen_state[p[1]][p[2]][3] * g[p[1]][p[2]].logq[3]],
              Positions(n, b))

\* return Ls + Lp, Ls, Lp  (numerators over den)
compute_reconstruction_loss(mask, pen_state, g, n, b) ==
    [ total |-> LsNum(mask, g, n, b) + LpNum(pen_state, g, n, b),
      Ls    |-> LsNum(mask, g, n, b),
      Lp    |-> LpNum(pen_state, g, n, b),
      den   |-> (n + 1) * b ]

InitLoss ==
    /\ dir = {}
    /\ num_epoch = 0
    /\ pc = "idle"
    /\ dataset_list = << >>
    /\ k = 1
    /\ dataset_name = NoName
    /\ generator = NewNetwork(0)
    /\ discriminator = NewNetwork(0)
    /\ nextId = 1
    /\ i = 0
    /\ lastUpdate = "none"
    /\ saved = {}
    /\ started = << >>
    /\ returned = 0
    /\ lpc = "get_batch"
    /\ N_max \in 1..MaxNmax
    /\ batch_size \in 1..MaxBatch
    /\ batch = << >>
    /\ lengths = << >>
    /\ gen = << >>
    /\ truth = << >>
    /\ loss = << >>

\* batch, lengths = self.data_loader.get_batch(batch_size)
GetBatch ==
    /\ lpc = "get_batch"
    /\ \E lens \in [0..(batch_size - 1) -> 0..N_max] :
          /\ lengths' = lens
          /\ batch' \in Batches(N_max, batch_size, lens)
    /\ lpc' = "generator"
    /\ UNCHANGED <<N_max, batch_size, gen, truth, loss>>
    /\ UNCHANGED mainvars

\* pi, mu_x, ..., q, _, _ = self.generator(inputs, z, len_out=N_max + 1)
GeneratorForward ==
    /\ lpc = "generator"
    /\ gen' \in [0..N_max -> [0..(batch_size - 1) -> GenOut]]
    /\ lpc' = "get_ground_truth"
    /\ UNCHANGED <<N_max, batch_size, batch, lengths, truth, loss>>
    /\ UNCHANGED mainvars

GetGroundTruth ==
    /\ lpc = "get_ground_truth"
    /\ truth' = get_ground_truth(batch, lengths, N_max, batch_size)
    /\ lpc' = "reconstruction_loss"
    /\ UNCHANGED <<N_max, batch_size, batch, lengths, gen, loss>>
    /\ UNCHANGED mainvars

ComputeReconstructionLoss ==
    /\ lpc = "reconstruction_loss"
    /\ loss' = compute_reconstruction_loss(truth.mask, truth.pen_state, gen,
                                           N_max, batch_size)
    /\ lpc' = "done"
    /\ UNCHANGED <<N_max, batch_size, batch, lengths, gen, truth>>
    /\ UNCHANGED mainvars

NextLoss ==
    \/ GetBatch
    \/ GeneratorForward
    \/ GetGroundTruth
    \/ ComputeReconstructionLoss

SpecLoss == InitLoss /\ [][NextLoss]_vars

----------------------------------------------------------------------------
\* Properties of the main program and of train (checked under Spec).

MainPcs == {"main", "for_dataset", "exit"}
InTrain == pc \notin MainPcs \cup {"train", "idle"}
BeforeG == {"for_i", "G_zero_grad", "loss_G_backward", "G_step"}
BetweenGD == {"D_zero_grad", "loss_D_backward", "D_step"}

\* C1: in every iteration of train the generator is updated exactly once and
\* then the discriminator exactly once: the updates go G, D, G, D, ...
\* starting with G, and after k completed iterations each network has
\* received exactly k updates.
C1_Alternation ==
    InTrain =>
        /\ pc \in BeforeG =>
              /\ generator.updates = i
              /\ discriminator.updates = i
              /\ lastUpdate = (IF i = 0 THEN "none" ELSE "D")
        /\ pc \in BetweenGD =>
              /\ generator.updates = i + 1
              /\ discriminator.updates = i
              /\ lastUpdate = "G"
        /\ pc = "end_of_iter" =>
              /\ generator.updates = i + 1
              /\ discriminator.updates = i + 1
              /\ lastUpdate = "D"

C1_Witness ==
    /\ pc = "for_i"
    /\ i = 2
    /\ generator.updates = 2
    /\ discriminator.updates = 2
    /\ lastUpdate = "D"

\* C5: when optimizer_G.step() runs the generator's gradient buffer holds
\* only this iteration's loss_G.backward(), and when optimizer_D.step() runs
\* the discriminator's buffer holds only this iteration's loss_D.backward().
C5_OwnGradientOnly ==
    /\ pc = "G_step" => generator.grad = {<<"loss_G", i>>}
    /\ pc = "D_step" => discriminator.grad = {<<"loss_D", i>>}

\* Second iteration, discriminator about to step: its buffer was cleared of
\* the gradient loss_G.backward() left there, while the generator's buffer
\* now holds gradient from both losses.
C5_Witness ==
    /\ pc = "D_step"
    /\ i = 1
    /\ discriminator.grad = {<<"loss_D", 1>>}
    /\ generator.grad = {<<"loss_G", 1>>, <<"loss_D", 1>>}

\* C6: a checkpoint is written in exactly the iterations i with
\* i mod 100 = 0, after both updates of that iteration; a train of
\* num_epoch >= 1 iterations writes ceil(num_epoch / 100) checkpoints.
C6_Checkpoints ==
    InTrain =>
        /\ saved = { [i |-> n, g |-> n + 1, d |-> n + 1] :
                        n \in { m \in 0..(i - 1) : m % SaveEvery = 0 } }
        /\ (pc = "for_i" /\ i >= num_epoch /\ num_epoch >= 1) =>
              Cardinality(saved) = (num_epoch + SaveEvery - 1) \div SaveEvery

C6_Witness ==
    /\ pc = "for_i"
    /\ num_epoch = SaveEvery + 1
    /\ i = num_epoch
    /\ Cardinality(saved) = 2

\* C7: every regular file of the dataset directory is trained on exactly
\* once, one at a time, each with a new Model named by the file name without
\* its last four characters, whose generator and discriminator are new.
C7_OneFreshModelPerFile ==
    /\ Len(started) - returned \in {0, 1}
    /\ (pc \notin MainPcs \cup {"idle"}) <=> (Len(started) = returned + 1)
    /\ \A a \in DOMAIN started :
          /\ [name |-> started[a].file, isfile |-> TRUE] \in dir
          /\ Len(started[a].file) = Len(started[a].name) + 4
          /\ \A c \in DOMAIN started[a].name :
                started[a].name[c] = started[a].file[c]
          /\ started[a].generator # started[a].discriminator
          /\ \A b \in DOMAIN started :
                a # b =>
                   /\ started[a].file # started[b].file
                   /\ {started[a].generator, started[a].discriminator}
                        \cap {started[b].generator, started[b].discriminator} = {}
    /\ pc = "train" =>
          /\ dataset_name = started[Len(started)].name
          /\ generator = [id |-> started[Len(started)].generator,
                          updates |-> 0, grad |-> {}]
          /\ discriminator = [id |-> started[Len(started)].discriminator,
                              updates |-> 0, grad |-> {}]
    /\ pc = "exit" =>
          /\ returned = Len(started)
          /\ { started[a].file : a \in DOMAIN started }
                = { e.name : e \in { x \in dir : x.isfile } }

C7_Witness ==
    /\ pc = "exit"
    /\ Len(started) = 2
    /\ returned = 2
    /\ num_epoch >= 1
    /\ \E e \in dir : ~ e.isfile

----------------------------------------------------------------------------
\* Properties of the reconstruction loss (checked under SpecLoss).

AfterGroundTruth == lpc \in {"reconstruction_loss", "done"}

\* The generator outputs with those of position (t, j) replaced by o.
WithOutput(g, t, j, o) == [g EXCEPT ![t][j] = o]

\* C2 (as stated): a position whose mask value is 0 contributes nothing to
\* the total loss Ls + Lp: whatever the generator outputs there, the total
\* is the same.
C2_MaskedTotal ==
    lpc = "done" =>
        \A t \in 0..N_max, j \in 0..(batch_size - 1) :
            truth.mask[t][j] = 0 =>
                \A o \in GenOut :
                    compute_reconstruction_loss(truth.mask, truth.pen_state,
                        WithOutput(gen, t, j, o), N_max, batch_size).total
                    = loss.total

\* C2 (amended): a position whose mask value is 0 contributes nothing to the
\* Ls term of the loss: whatever the generator outputs there, Ls is the
\* same.
C2_MaskedLs ==
    lpc = "done" =>
        \A t \in 0..N_max, j \in 0..(batch_size - 1) :
            truth.mask[t][j] = 0 =>
                \A o \in GenOut :
                    compute_reconstruction_loss(truth.mask, truth.pen_state,
                        WithOutput(gen, t, j, o), N_max, batch_size).Ls
                    = loss.Ls

C2_Witness ==
    /\ lpc = "done"
    /\ \E t \in 0..N_max, j \in 0..(batch_size - 1) :
          truth.mask[t][j] = 0 /\ gen[t][j].logd # 0
    /\ \E t \in 0..N_max, j \in 0..(batch_size - 1) :
          truth.mask[t][j] = 1 /\ gen[t][j].logd # 0
    /\ loss.Ls # 0

\* C3: the mask has N_max + 1 time steps per sequence and, for a sequence of
\* length L, mask[t, j] = 1 exactly when 1 <= t <= L: position 0 is never
\* counted and exactly L positions are.
C3_MaskShape ==
    AfterGroundTruth =>
        /\ DOMAIN truth.mask = 0..N_max
        /\ \A j \in 0..(batch_size - 1) :
              /\ \A t \in 0..N_max :
                    truth.mask[t][j] = 1 <=> (1 <= t /\ t <= lengths[j])
              /\ \A t \in 0..N_max : truth.mask[t][j] \in {0, 1}
              /\ truth.mask[0][j] = 0
              /\ Cardinality({ t \in 0..N_max : truth.mask[t][j] = 1 }) = lengths[j]

C3_Witness ==
    /\ lpc = "done"
    /\ N_max >= 2
    /\ \E j \in 0..(batch_size - 1) :
          lengths[j] = N_max /\ truth.mask[N_max][j] = 1

\* C4: mask and targets are aligned: the target positions with mask 1 are
\* exactly the real strokes of the sequence, none left out, and no padding
\* or end-of-sequence row counted.
C4_MaskAlignsWithTargets ==
    AfterGroundTruth =>
        \A t \in 0..N_max, j \in 0..(batch_size - 1) :
            truth.mask[t][j] = 1 <=> truth.kind[t][j] = "stroke"

====
